---------------------------- MODULE Spec2Model ----------------------------
(***************************************************************************)
(* Care-Sync: the record vault, the access-control ledger and the audit    *)
(* trail of src/api.py, over the tables of src/database.py and the file    *)
(* helpers of src/utils.py.                                                *)
(*                                                                         *)
(* Rows are kept in sequences; a row's id is its index (autoincrement      *)
(* integer primary keys).  Handlers declared "def" run in worker threads   *)
(* and are one action each (one transaction, one commit).  The handler     *)
(* declared "async def" (upload_health_record) runs on the event loop: it  *)
(* yields at "await file.read()" only, so at most one upload is between    *)
(* its await and its return at any time; its steps are separate actions    *)
(* because it commits twice and other requests can see the state between.  *)
(***************************************************************************)
EXTENDS Integers, Sequences, FiniteSets, TLC

VARIABLES
    users,      \* table users
    records,    \* table health_records
    grants,     \* table record_access
    logs,       \* table access_logs
    disk,       \* files under UPLOAD_DIR: path -> content
    req,        \* upload requests in flight: slot -> position and arguments
    loop,       \* slot of the upload running on the event loop, 0 if none
    nreq,       \* number of upload requests that reached the file write
    now,        \* the clock, datetime.now(timezone.utc)
    resp,       \* the response produced by the last step, if it produced one
    appts,      \* table appointments
    metrics,    \* table health_metrics
    session,    \* the bearer token the client holds, if it has logged in
    reg         \* registrations in flight: slot -> position and arguments

vars == <<users, records, grants, logs, disk, req, loop, nreq, now, resp,
          appts, metrics, session, reg>>

----------------------------------------------------------------------------
\* Bounds of the model.

MaxUsers == 4
MaxRecords == 2
MaxGrants == 2
MaxLogs == 4
MaxTime == 1
MaxUploads == 2
MaxRequests == 3
MaxLimit == 3
MaxRegistrations == 2
MaxMinutes == 31
MaxAppointments == 2
MaxMetrics == 3

----------------------------------------------------------------------------
\* config.py

PATIENT == "patient"
DOCTOR == "doctor"
ADMIN == "admin"

MAX_FILE_SIZE == 10 * 1024 * 1024

\* expires_at: Optional[datetime] = None (api.py:62); instants are >= 0.
None == -1

----------------------------------------------------------------------------
\* Generic helpers.

Max(a, b) == IF a >= b THEN a ELSE b
Min(a, b) == IF a <= b THEN a ELSE b

Last(s) == s[Len(s)]

Range(s) == {s[i] : i \in 1..Len(s)}

----------------------------------------------------------------------------
\* Users.

UserIds == 1..MaxUsers

\* A caller-supplied user id that may not exist.
AnyUserId == 1..(MaxUsers + 1)

Exists(uid) == uid \in 1..Len(users)

\* init_db.create_sample_users: patient1, doctor1, admin1.  Usernames and
\* emails are numbered; is_active takes the column default.
SampleUsers ==
    << [username |-> 1, email |-> 1, role |-> PATIENT, is_active |-> TRUE],
       [username |-> 2, email |-> 2, role |-> DOCTOR,  is_active |-> TRUE],
       [username |-> 3, email |-> 3, role |-> ADMIN,   is_active |-> TRUE] >>

----------------------------------------------------------------------------
\* Files.  A file name is the sequence of its dot-separated parts; a path
\* is <<user id, file name>> (UPLOAD_DIR / str(user.id) / file.filename).

PdfName == <<"a", "pdf">>
ExeName == <<"b", "exe">>
EncOfPdfName == <<"a", "pdf", "encrypted">>

FileNames == {PdfName, ExeName, EncOfPdfName}

\* encrypt_file: f"{file_path}.encrypted"
EncryptedName(f) == Append(f, "encrypted")

AllNames == FileNames \cup {EncryptedName(f) : f \in FileNames}

Paths == UserIds \X AllNames

NoFile == [by |-> 0, form |-> "none", size |-> 0]

\* The bytes of upload request n: size s, as sent.
Plain(n, s) == [by |-> n, form |-> "plain", size |-> s]

\* Fernet token length for s bytes: base64 of version (1), timestamp (8),
\* iv (16), PKCS7-padded AES-CBC ciphertext and HMAC (32).
FernetSize(s) == 4 * ((57 + 16 * ((s \div 16) + 1) + 2) \div 3)

\* fernet.encrypt(file_data)
Encrypted(c) == [by |-> c.by, form |-> "cipher", size |-> FernetSize(c.size)]

Sizes == {MAX_FILE_SIZE, MAX_FILE_SIZE + 1}

\* os.path.splitext(file_path)[1].lower(): the last part, if there are two.
Ext(f) == IF Len(f) >= 2 THEN Last(f) ELSE ""

get_file_type(f) ==
    CASE Ext(f) = "pdf"  -> "application/pdf"
      [] Ext(f) = "jpg"  -> "image/jpeg"
      [] Ext(f) = "jpeg" -> "image/jpeg"
      [] Ext(f) = "png"  -> "image/png"
      [] Ext(f) = "txt"  -> "text/plain"
      [] Ext(f) = "doc"  -> "application/msword"
      [] Ext(f) = "docx" -> "application/vnd.openxmlformats-officedocument.wordprocessingml.document"
      [] OTHER -> "application/octet-stream"

allowed_types ==
    {"application/pdf", "image/jpeg", "image/png", "text/plain",
     "application/msword",
     "application/vnd.openxmlformats-officedocument.wordprocessingml.document"}

validate_file_upload_Any(f, size, max_size) == TRUE

\* validate_file_upload(...)["valid"], of a file that exists.
validate_file_upload(f, size, max_size) ==
    /\ ~(size > max_size)
    /\ get_file_type(f) \in allowed_types

----------------------------------------------------------------------------
\* Bearer tokens, utils.py:42-59 and api.py:72-100.  The clock counts
\* minutes.

\* api.py:149: access_token_expires = timedelta(minutes=30)
TOKEN_MINUTES == 30

\* payload.get("sub") of a payload with no "sub".
NoSub == 0

\* What a request carries in its Authorization header: nothing, or a
\* bearer token with the claims of its payload (sub, exp) and whether its
\* signature verifies under SECRET_KEY.
NoCredentials == [kind |-> "none", sub |-> NoSub, exp |-> 0, signed |-> FALSE]

Bearer(sub, exp, signed) ==
    [kind |-> "bearer", sub |-> sub, exp |-> exp, signed |-> signed]

\* utils.py:42-51: the token expires expires_delta after t.
create_access_token(sub, t, expires_delta) == Bearer(sub, t + expires_delta, TRUE)

\* A mutant of verify_token: the expiry is not checked.
verify_token_NoExpiry(tok, t) == tok.signed

\* utils.py:53-59: jwt.decode returns the payload unless the signature is
\* wrong or exp < now (JWTError); TRUE when the payload is returned.
verify_token(tok, t) ==
    /\ tok.signed
    /\ ~(tok.exp < t)

\* db.query(User).filter(User.username == un).first(): the id, 0 if none.
FindByUsername(un) ==
    LET found == {i \in 1..Len(users) : users[i].username = un}
    IN IF found = {} THEN 0 ELSE CHOOSE i \in found : \A j \in found : i <= j

\* api.py:72-100: the id of the user the token resolves to, 0 when the
\* dependency raises 401.
get_current_user(tok, t) ==
    IF ~verify_token(tok, t) THEN 0
    ELSE IF tok.sub = NoSub THEN 0
    ELSE FindByUsername(tok.sub)

\* api.py:22, security = HTTPBearer(): a request with no Authorization
\* header is refused before get_current_user runs, with 403 by the FastAPI
\* of deploy.py:57 (0.104.1) and with 401 by later releases.
HTTPBearerRefusal == {403, 401}

----------------------------------------------------------------------------
\* Responses.

\* op: the endpoint; caller: the user the token resolved to; status: the
\* HTTP status; body: the ids of the rows returned; arg, arg2: the request's
\* arguments; no, name, size: of an upload, its number, file name and size;
\* cred: the credentials of the request, where the step is about them.
NoResp == [op |-> "none", caller |-> 0, status |-> 0, body |-> <<>>,
           arg |-> 0, arg2 |-> 0, no |-> 0, name |-> <<>>, size |-> 0,
           cred |-> NoCredentials]

Response(op, caller, status, body, arg, arg2) ==
    [NoResp EXCEPT !.op = op, !.caller = caller, !.status = status,
                   !.body = body, !.arg = arg, !.arg2 = arg2]

\* The response leaves the server.  resp holds one response at a time, so
\* that each response is seen against the state it was computed in.
SendResponse ==
    /\ resp # NoResp
    /\ resp' = NoResp
    /\ UNCHANGED <<users, records, grants, logs, disk, req, loop, nreq, now>>
    /\ UNCHANGED <<appts, metrics, session, reg>>

----------------------------------------------------------------------------
\* Upload requests.

Slots == 1..MaxUploads

IdleReq == [pc |-> "idle", user |-> 0, name |-> <<>>, size |-> 0,
            date_ok |-> TRUE, linked |-> FALSE, no |-> 0, meta |-> 0,
            rid |-> 0]

PlainPath(r) == <<r.user, r.name>>

EncPath(r) == <<r.user, EncryptedName(r.name)>>

\* os.remove(p), or the unlinking of whatever inode is at p: requests that
\* hold an open handle on that inode keep it, but it is no longer at p.
Unlink(rq, p) ==
    [s \in Slots |->
        IF rq[s].pc = "reading" /\ PlainPath(rq[s]) = p
        THEN [rq[s] EXCEPT !.linked = FALSE]
        ELSE rq[s]]

\* The handler returns or raises: the slot is free again.
Finish(q, rq, status) ==
    /\ req' = [rq EXCEPT ![q] = IdleReq]
    /\ loop' = 0
    /\ resp' = [Response("upload", req[q].user, status, <<>>, req[q].rid, 0)
                   EXCEPT !.no = req[q].no, !.name = req[q].name,
                          !.size = req[q].size]

\* Registration requests: each runs in a worker thread of its own.
RegSlots == 1..MaxRegistrations

IdleReg == [pc |-> "idle", username |-> 0, email |-> 0, role |-> ""]

Init ==
    /\ users = SampleUsers
    /\ records = <<>>
    /\ grants = <<>>
    /\ logs = <<>>
    /\ disk = [p \in Paths |-> NoFile]
    /\ req = [s \in Slots |-> IdleReq]
    /\ loop = 0
    /\ nreq = 0
    /\ now = 0
    /\ resp = NoResp
    /\ appts = <<>>
    /\ metrics = <<>>
    /\ session = NoCredentials
    /\ reg = [s \in RegSlots |-> IdleReg]

----------------------------------------------------------------------------
\* upload_health_record, api.py:164-232.

\* Lines 175-189, up to "await file.read()": the role check, then
\* open(file_path, "wb"), which creates the file or truncates the one there.
UploadOpen(q, c, f, sz, d) ==
    /\ resp = NoResp
    /\ loop = 0
    /\ req[q].pc = "idle"
    /\ \A s \in Slots : s < q => req[s].pc # "idle"
    /\ Exists(c)
    /\ nreq < MaxRequests
    /\ IF users[c].role # PATIENT
       THEN /\ resp' = [Response("upload", c, 403, <<>>, 0, 0)
                           EXCEPT !.name = f, !.size = sz]
            /\ UNCHANGED <<disk, req, nreq>>
       ELSE /\ nreq' = nreq + 1
            /\ disk' = [disk EXCEPT ![<<c, f>>] = Plain(nreq + 1, 0)]
            /\ req' = [req EXCEPT ![q] =
                          [pc |-> "reading", user |-> c, name |-> f,
                           size |-> sz, date_ok |-> d, linked |-> TRUE,
                           no |-> nreq + 1, meta |-> 0, rid |-> 0]]
            /\ resp' = NoResp
    /\ UNCHANGED <<users, records, grants, logs, loop, now>>
    /\ UNCHANGED <<appts, metrics, session, reg>>

\* Lines 188-189, after the await: buffer.write(content) at offset 0 of the
\* inode opened, and the close.  From here to the return the handler holds
\* the event loop.
UploadSave(q) ==
    /\ resp = NoResp
    /\ loop = 0
    /\ req[q].pc = "reading"
    /\ loop' = q
    /\ req' = [req EXCEPT ![q].pc = "saved"]
    /\ disk' = IF req[q].linked
               THEN [disk EXCEPT ![PlainPath(req[q])] =
                        Plain(req[q].no, Max(req[q].size, @.size))]
               ELSE disk
    /\ resp' = NoResp
    /\ UNCHANGED <<users, records, grants, logs, nreq, now>>
    /\ UNCHANGED <<appts, metrics, session, reg>>

\* Lines 192-198: validate_file_upload(str(file_path), MAX_FILE_SIZE);
\* os.path.getsize raises FileNotFoundError when nothing is at the path.
UploadValidate(q) ==
    /\ resp = NoResp
    /\ loop = q
    /\ req[q].pc = "saved"
    /\ LET p == PlainPath(req[q]) IN
       IF disk[p] = NoFile
       THEN /\ Finish(q, req, 500)
            /\ UNCHANGED disk
       ELSE IF ~validate_file_upload(req[q].name, disk[p].size, MAX_FILE_SIZE)
       THEN /\ disk' = [disk EXCEPT ![p] = NoFile]
            /\ Finish(q, Unlink(req, p), 400)
       ELSE /\ req' = [req EXCEPT ![q].pc = "validated"]
            /\ resp' = NoResp
            /\ UNCHANGED <<disk, loop>>
    /\ UNCHANGED <<users, records, grants, logs, nreq, now>>
    /\ UNCHANGED <<appts, metrics, session, reg>>

\* Line 201: extract_metadata_from_file; metadata["file_size"] is the size
\* on disk.  The type-specific extraction swallows its own errors.
UploadExtract(q) ==
    /\ resp = NoResp
    /\ loop = q
    /\ req[q].pc = "validated"
    /\ req' = [req EXCEPT ![q].pc = "extracted",
                          ![q].meta = disk[PlainPath(req[q])].size]
    /\ resp' = NoResp
    /\ UNCHANGED <<users, records, grants, logs, disk, loop, nreq, now>>
    /\ UNCHANGED <<appts, metrics, session, reg>>

encrypt_file_KeepPlain(d, p, e) == [d EXCEPT ![e] = Encrypted(d[p])]

\* encrypt_file, utils.py:70-83: reads the file at p, writes the token to
\* e = "<p>.encrypted" (created or truncated) and removes the original.
encrypt_file(d, p, e) == [d EXCEPT ![e] = Encrypted(d[p]), ![p] = NoFile]

\* Line 204: encrypted_path = encrypt_file(str(file_path)).
UploadEncrypt(q) ==
    /\ resp = NoResp
    /\ loop = q
    /\ req[q].pc = "extracted"
    /\ LET p == PlainPath(req[q])
           e == EncPath(req[q])
       IN /\ disk' = encrypt_file(disk, p, e)
          /\ req' = [Unlink(req, p) EXCEPT ![q].pc = "encrypted"]
    /\ resp' = NoResp
    /\ UNCHANGED <<users, records, grants, logs, loop, nreq, now>>
    /\ UNCHANGED <<appts, metrics, session, reg>>

\* Lines 207-221: datetime.fromisoformat(record_date) raises ValueError on
\* a string that is no ISO date; db.add, db.commit (committed: TRUE unless
\* the commit raises).
UploadPersist(q, committed) ==
    /\ resp = NoResp
    /\ loop = q
    /\ req[q].pc = "encrypted"
    /\ Len(records) < MaxRecords
    /\ IF ~req[q].date_ok \/ ~committed
       THEN /\ Finish(q, req, 500)
            /\ UNCHANGED records
       ELSE /\ records' = Append(records,
                   [patient_id |-> req[q].user,
                    file_path |-> EncPath(req[q]),
                    file_name |-> req[q].name,
                    file_size |-> req[q].meta])
            /\ req' = [req EXCEPT ![q].pc = "persisted",
                                  ![q].rid = Len(records) + 1]
            /\ resp' = NoResp
            /\ UNCHANGED loop
    /\ UNCHANGED <<users, grants, logs, disk, nreq, now>>
    /\ UNCHANGED <<appts, metrics, session, reg>>

\* The AccessLog row of an upload.
UploadLog(uid, rid, t) ==
    [user_id |-> uid, record_id |-> rid, action |-> "upload", timestamp |-> t]

\* Lines 224-232: the audit entry, in a transaction of its own.
UploadAudit(q, committed) ==
    /\ resp = NoResp
    /\ loop = q
    /\ req[q].pc = "persisted"
    /\ Len(logs) < MaxLogs
    /\ IF committed
       THEN /\ logs' = Append(logs, UploadLog(req[q].user, req[q].rid, now))
            /\ Finish(q, req, 200)
       ELSE /\ Finish(q, req, 500)
            /\ UNCHANGED logs
    /\ UNCHANGED <<users, records, grants, disk, nreq, now>>
    /\ UNCHANGED <<appts, metrics, session, reg>>

\* The steps of one upload after the file is open.
UploadStep(q, commits) ==
    \/ UploadSave(q)
    \/ UploadValidate(q)
    \/ UploadExtract(q)
    \/ UploadEncrypt(q)
    \/ \E ok \in commits : UploadPersist(q, ok)
    \/ \E ok \in commits : UploadAudit(q, ok)

----------------------------------------------------------------------------
\* register_user, api.py:103-135.  The role is stored as sent.

Roles == {PATIENT, DOCTOR, ADMIN, "nurse"}

\* A caller-supplied username or email, which may be taken.
AnyName == 1..(MaxUsers + 1)

\* Lines 106-108: a user with this username or this email exists.
Taken(un, em) ==
    \E i \in 1..Len(users) : users[i].username = un \/ users[i].email = em

\* Lines 118-128: the row, is_active by the column default.
NewUser(un, em, role) ==
    [username |-> un, email |-> em, role |-> role, is_active |-> TRUE]

\* The whole handler, when no other registration runs beside it.
Register(un, em, role) ==
    /\ resp = NoResp
    /\ Len(users) < MaxUsers
    /\ IF Taken(un, em)
       THEN /\ resp' = Response("register", 0, 400, <<>>, un, em)
            /\ UNCHANGED users
       ELSE /\ users' = Append(users, NewUser(un, em, role))
            /\ resp' = Response("register", 0, 200, <<Len(users) + 1>>, un, em)
    /\ UNCHANGED <<records, grants, logs, disk, req, loop, nreq, now>>
    /\ UNCHANGED <<appts, metrics, session, reg>>

\* The handler runs in a worker thread, so another registration can commit
\* between its query and its commit.  Lines 106-114: the query, and 400 if
\* it finds a user.
RegisterCheck(s, un, em, role) ==
    /\ resp = NoResp
    /\ reg[s].pc = "idle"
    /\ \A t \in RegSlots : t < s => reg[t].pc # "idle"
    /\ IF Taken(un, em)
       THEN /\ resp' = Response("register", 0, 400, <<>>, un, em)
            /\ UNCHANGED reg
       ELSE /\ reg' = [reg EXCEPT ![s] = [pc |-> "checked", username |-> un,
                                          email |-> em, role |-> role]]
            /\ resp' = NoResp
    /\ UNCHANGED <<users, records, grants, logs, disk, req, loop, nreq, now>>
    /\ UNCHANGED <<appts, metrics, session>>

\* Lines 130-135: db.commit().  users.username and users.email are unique
\* (database.py:20-21): the INSERT of a taken value raises IntegrityError,
\* which nothing catches, and the request is answered 500.
RegisterCommit(s) ==
    /\ resp = NoResp
    /\ reg[s].pc = "checked"
    /\ LET r == reg[s] IN
       IF Taken(r.username, r.email)
       THEN /\ resp' = Response("register", 0, 500, <<>>, r.username, r.email)
            /\ UNCHANGED users
       ELSE /\ Len(users) < MaxUsers
            /\ users' = Append(users, NewUser(r.username, r.email, r.role))
            /\ resp' = Response("register", 0, 200, <<Len(users) + 1>>,
                                r.username, r.email)
    /\ reg' = [reg EXCEPT ![s] = IdleReg]
    /\ UNCHANGED <<records, grants, logs, disk, req, loop, nreq, now>>
    /\ UNCHANGED <<appts, metrics, session>>

----------------------------------------------------------------------------
\* login_user, api.py:137-161.  pw_ok: verify_password accepts the password.
Login(un, pw_ok) ==
    /\ resp = NoResp
    /\ LET u == FindByUsername(un) IN
       IF u = 0 \/ ~pw_ok
       THEN /\ resp' = Response("login", 0, 401, <<>>, un, 0)
            /\ UNCHANGED session
       ELSE LET tok == create_access_token(users[u].username, now,
                                           TOKEN_MINUTES)
            IN /\ session' = tok
               /\ resp' = [Response("login", u, 200, <<>>, un, 0)
                              EXCEPT !.cred = tok]
    /\ UNCHANGED <<users, records, grants, logs, disk, req, loop, nreq, now>>
    /\ UNCHANGED <<appts, metrics, reg>>

\* d minutes pass.
Elapse(d) ==
    /\ resp = NoResp
    /\ d >= 1
    /\ now + d <= MaxMinutes
    /\ now' = now + d
    /\ resp' = NoResp
    /\ UNCHANGED <<users, records, grants, logs, disk, req, loop, nreq>>
    /\ UNCHANGED <<appts, metrics, session, reg>>

\* The bearer tokens a request may carry at time t, whoever made them:
\* every subject, expiring just before, at or just after t, signed with
\* SECRET_KEY or not.
AnyToken(t) ==
    {Bearer(sub, exp, signed) :
        sub \in {NoSub} \cup AnyName,
        exp \in {e \in {t - 1, t, t + 1} : e >= 0},
        signed \in BOOLEAN}

\* Depends(get_current_user) on a request that carries a bearer token: the
\* user the handler is given, or 401.
GetCurrentUser(cred) ==
    /\ resp = NoResp
    /\ cred.kind = "bearer"
    /\ LET u == get_current_user(cred, now) IN
       resp' = [Response("resolve", u, IF u = 0 THEN 401 ELSE 200, <<>>, 0, 0)
                   EXCEPT !.cred = cred]
    /\ UNCHANGED <<users, records, grants, logs, disk, req, loop, nreq, now>>
    /\ UNCHANGED <<appts, metrics, session, reg>>

----------------------------------------------------------------------------
\* The clock advances.
Tick ==
    /\ resp = NoResp
    /\ now < MaxTime
    /\ now' = now + 1
    /\ resp' = NoResp
    /\ UNCHANGED <<users, records, grants, logs, disk, req, loop, nreq>>
    /\ UNCHANGED <<appts, metrics, session, reg>>

\* Soft deactivation of an account (users.is_active, database.py:29).  No
\* endpoint under src/ writes the flag; the data model's lifecycle does.
DeactivateUser(u) ==
    /\ resp = NoResp
    /\ Exists(u)
    /\ users[u].is_active
    /\ users' = [users EXCEPT ![u].is_active = FALSE]
    /\ resp' = NoResp
    /\ UNCHANGED <<records, grants, logs, disk, req, loop, nreq, now>>
    /\ UNCHANGED <<appts, metrics, session, reg>>

\* Revocation of a grant (record_access.is_active, database.py:66).  No
\* endpoint under src/ writes the flag; the data model's lifecycle does.
DeactivateGrant(g) ==
    /\ resp = NoResp
    /\ g \in 1..Len(grants)
    /\ grants[g].is_active
    /\ grants' = [grants EXCEPT ![g].is_active = FALSE]
    /\ resp' = NoResp
    /\ UNCHANGED <<users, records, logs, disk, req, loop, nreq, now>>
    /\ UNCHANGED <<appts, metrics, session, reg>>

----------------------------------------------------------------------------
\* grant_record_access, api.py:263-311.

\* A caller-supplied record id that may not exist.
AnyRecordId == 1..(MaxRecords + 1)

\* A caller-supplied expires_at: absent, or any instant.
Expiries == {None} \cup (0..MaxTime)

\* A mutant of OwnedRecord: the patient_id filter is dropped.
OwnedRecord_AnyOwner(c, rid) ==
    rid \in 1..Len(records)

\* Lines 277-280: the record with this id and patient_id == caller exists.
OwnedRecord(c, rid) ==
    /\ rid \in 1..Len(records)
    /\ records[rid].patient_id = c

\* Lines 289-292: the user with this id and role doctor exists.
FindDoctor(did) ==
    /\ Exists(did)
    /\ users[did].role = DOCTOR

\* A mutant of GrantsAfter: a grant of the same record to the same doctor
\* is replaced.
GrantsAfter_Upsert(gs, row) ==
    LET same == {g \in 1..Len(gs) : /\ gs[g].record_id = row.record_id
                                     /\ gs[g].doctor_id = row.doctor_id}
    IN IF same = {} THEN Append(gs, row)
       ELSE [g \in 1..Len(gs) |-> IF g \in same THEN row ELSE gs[g]]

\* Lines 308-309: db.add(access_permission), db.commit(): one more row.
GrantsAfter(gs, row) == Append(gs, row)

GrantRecordAccess(c, rid, did, exp) ==
    /\ resp = NoResp
    /\ Exists(c)
    /\ Len(grants) < MaxGrants
    /\ IF users[c].role # PATIENT
       THEN /\ resp' = Response("grant", c, 403, <<>>, rid, did)
            /\ UNCHANGED grants
       ELSE IF ~OwnedRecord(c, rid)
       THEN /\ resp' = Response("grant", c, 404, <<>>, rid, did)
            /\ UNCHANGED grants
       ELSE IF ~FindDoctor(did)
       THEN /\ resp' = Response("grant", c, 404, <<>>, rid, did)
            /\ UNCHANGED grants
       ELSE /\ grants' = GrantsAfter(grants,
                   [record_id |-> rid, doctor_id |-> did, granted_by |-> c,
                    expires_at |-> exp, is_active |-> TRUE])
            /\ resp' = Response("grant", c, 200, <<>>, rid, did)
    /\ UNCHANGED <<users, records, logs, disk, req, loop, nreq, now>>
    /\ UNCHANGED <<appts, metrics, session, reg>>

----------------------------------------------------------------------------
\* get_my_records, api.py:234-261.

Ids(table) == [i \in 1..Len(table) |-> i]

\* A mutant of MyRecords: the patient_id filter is dropped.
MyRecords_All(c) == Ids(records)

\* Line 246: the records with patient_id == caller.
MyRecords(c) ==
    LET Mine(r) == records[r].patient_id = c
    IN SelectSeq(Ids(records), Mine)

GetMyRecords(c) ==
    /\ resp = NoResp
    /\ Exists(c)
    /\ IF users[c].role # PATIENT
       THEN resp' = Response("my_records", c, 403, <<>>, 0, 0)
       ELSE resp' = Response("my_records", c, 200, MyRecords(c), 0, 0)
    /\ UNCHANGED <<users, records, grants, logs, disk, req, loop, nreq, now>>
    /\ UNCHANGED <<appts, metrics, session, reg>>

----------------------------------------------------------------------------
\* get_patient_records, api.py:438-481.

Dedup_Keep(s) == s

RECURSIVE Dedup(_)
\* The ORM returns each entity once, whatever the number of joined rows.
Dedup(s) ==
    IF s = <<>> THEN <<>>
    ELSE LET rest == Dedup(SubSeq(s, 1, Len(s) - 1))
         IN IF Last(s) \in Range(rest) THEN rest ELSE Append(rest, Last(s))

\* A mutant of JoinRows: RecordAccess.is_active is not filtered on.
JoinRows_NoActive(d, p) ==
    LET Pass(g) == /\ grants[g].record_id \in 1..Len(records)
                   /\ grants[g].doctor_id = d
                   /\ records[grants[g].record_id].patient_id = p
    IN SelectSeq(Ids(grants), Pass)

\* Lines 452-456: the rows of health_records JOIN record_access that pass
\* the filter, one per grant.
JoinRows(d, p) ==
    LET Pass(g) == /\ grants[g].record_id \in 1..Len(records)
                   /\ grants[g].doctor_id = d
                   /\ grants[g].is_active = TRUE
                   /\ records[grants[g].record_id].patient_id = p
    IN SelectSeq(Ids(grants), Pass)

\* The records the query returns.
AccessibleRecords(d, p) ==
    LET rows == JoinRows(d, p)
    IN Dedup([i \in 1..Len(rows) |-> grants[rows[i]].record_id])

\* A mutant of ViewLogs: only the first record returned is logged.
ViewLogs_FirstOnly(d, rs, t) ==
    IF rs = <<>> THEN <<>>
    ELSE << [user_id |-> d, record_id |-> rs[1], action |-> "view",
             timestamp |-> t] >>

\* Lines 459-465: one AccessLog row per record.
ViewLogs(d, rs, t) ==
    [i \in 1..Len(rs) |->
        [user_id |-> d, record_id |-> rs[i], action |-> "view",
         timestamp |-> t]]

\* A mutant of LogsAfterViews: the new entries replace the table.
LogsAfterViews_Replace(lg, entries) == entries

\* Line 467: db.commit() inserts the pending rows.
LogsAfterViews(lg, entries) == lg \o entries

\* committed: TRUE unless db.commit() raises; then nothing is returned and
\* the session's pending rows are dropped.
GetPatientRecords(c, p, committed) ==
    /\ resp = NoResp
    /\ Exists(c)
    /\ IF users[c].role # DOCTOR
       THEN /\ resp' = Response("patient_records", c, 403, <<>>, p, 0)
            /\ UNCHANGED logs
       ELSE LET rs == AccessibleRecords(c, p) IN
            /\ Len(logs) + Len(rs) <= MaxLogs
            /\ IF committed
               THEN /\ logs' = LogsAfterViews(logs, ViewLogs(c, rs, now))
                    /\ resp' = Response("patient_records", c, 200, rs, p, 0)
               ELSE /\ resp' = Response("patient_records", c, 500, <<>>, p, 0)
                    /\ UNCHANGED logs
    /\ UNCHANGED <<users, records, grants, disk, req, loop, nreq, now>>
    /\ UNCHANGED <<appts, metrics, session, reg>>

----------------------------------------------------------------------------
\* get_audit_logs, api.py:645-672.

RECURSIVE LatestFirst(_)
\* The ways to list the entries S latest first: entries with equal
\* timestamps come in any order.
LatestFirst(S) ==
    IF S = {} THEN {<<>>}
    ELSE UNION { {<<l>> \o o : o \in LatestFirst(S \ {l})} :
                 l \in {m \in S : \A k \in S :
                                    logs[m].timestamp >= logs[k].timestamp} }

\* The orders ORDER BY timestamp DESC may give.
DescOrders == LatestFirst(1..Len(logs))

\* A mutant of Limit: the limit is ignored.
Limit_Ignored(o, limit) == o

\* .limit(limit)
Limit(o, limit) == SubSeq(o, 1, Min(limit, Len(o)))

GetAuditLogs(c, limit) ==
    /\ resp = NoResp
    /\ Exists(c)
    /\ IF users[c].role # ADMIN
       THEN resp' = Response("audit_logs", c, 403, <<>>, limit, 0)
       ELSE \E o \in DescOrders :
               resp' = Response("audit_logs", c, 200, Limit(o, limit), limit, 0)
    /\ UNCHANGED <<users, records, grants, logs, disk, req, loop, nreq, now>>
    /\ UNCHANGED <<appts, metrics, session, reg>>

----------------------------------------------------------------------------
\* Appointments, api.py:314-391 and 540-583.

\* config.py:50-54
PENDING == "pending"
CONFIRMED == "confirmed"
COMPLETED == "completed"
CANCELLED == "cancelled"

\* A caller-supplied appointment id that may not exist.
AnyAppointmentId == 1..(MaxAppointments + 1)

\* The key is not in update_data.
Absent == "<absent>"

\* update_data: dict, the JSON object of the request, whose "status" and
\* "notes" may be any string or be missing.
AnyStatus == {PENDING, CONFIRMED, COMPLETED, CANCELLED, "no-show", Absent}
AnyNotes == {"note", Absent}

\* Lines 328-336: the user with this id and this role exists.
FindRole(uid, role) ==
    /\ Exists(uid)
    /\ users[uid].role = role

\* Lines 345-352: the row; notes is NULL, updated_at the column default.
NewAppointment(pid, did, t) ==
    [patient_id |-> pid, doctor_id |-> did, status |-> PENDING,
     notes |-> "", updated_at |-> t,
     appointment_date |-> t + 1, duration_minutes |-> 30,
     reason |-> "checkup"]

\* create_appointment, api.py:314-358.
CreateAppointment(c, pid, did) ==
    /\ resp = NoResp
    /\ Exists(c)
    /\ Len(appts) < MaxAppointments
    /\ IF users[c].role \notin {DOCTOR, PATIENT}
       THEN /\ resp' = Response("create_appointment", c, 403, <<>>, pid, did)
            /\ UNCHANGED appts
       ELSE IF ~FindRole(pid, PATIENT) \/ ~FindRole(did, DOCTOR)
       THEN /\ resp' = Response("create_appointment", c, 404, <<>>, pid, did)
            /\ UNCHANGED appts
       ELSE /\ appts' = Append(appts, NewAppointment(pid, did, now))
            /\ resp' = Response("create_appointment", c, 200,
                                <<Len(appts) + 1>>, pid, did)
    /\ UNCHANGED <<users, records, grants, logs, disk, req, loop, nreq, now>>
    /\ UNCHANGED <<metrics, session, reg>>

\* get_my_appointments, api.py:360-391.
MyAppointments(c) ==
    LET Mine(a) == IF users[c].role = PATIENT
                   THEN appts[a].patient_id = c
                   ELSE appts[a].doctor_id = c
    IN SelectSeq(Ids(appts), Mine)

GetMyAppointments(c) ==
    /\ resp = NoResp
    /\ Exists(c)
    /\ IF users[c].role \in {PATIENT, DOCTOR}
       THEN resp' = Response("my_appointments", c, 200, MyAppointments(c), 0, 0)
       ELSE resp' = Response("my_appointments", c, 403, <<>>, 0, 0)
    /\ UNCHANGED <<users, records, grants, logs, disk, req, loop, nreq, now>>
    /\ UNCHANGED <<appts, metrics, session, reg>>

\* A mutant of OwnAppointment: every doctor and every patient passes.
OwnAppointment_Anyone(c, a) == TRUE

\* Lines 563-572, of a caller who is a doctor or a patient: a doctor passes
\* with the appointment's doctor_id, a patient with its patient_id.
OwnAppointment(c, a) ==
    /\ ~(users[c].role = DOCTOR /\ appts[a].doctor_id # c)
    /\ ~(users[c].role = PATIENT /\ appts[a].patient_id # c)

\* The keys of update_data other than "status" and "notes", each with its
\* value: update_data is an untyped dict (line 543).
OtherKeys ==
    {<<>>, <<<<"patient_id", 3>>>>, <<<<"doctor_id", 3>>>>,
     <<<<"appointment_date", 9>>>>, <<<<"duration_minutes", 5>>>>,
     <<<<"reason", "changed">>>>}

Updated_AllKeys(apt, st, notes, other, t) ==
    LET row == [apt EXCEPT !.status = IF st = Absent THEN @ ELSE st,
                           !.notes = IF notes = Absent THEN @ ELSE notes,
                           !.updated_at = t]
    IN IF other = <<>> THEN row
       ELSE [row EXCEPT ![other[1][1]] = other[1][2]]

\* Lines 575-580: "status" and "notes" are stored as sent when present; no
\* other key of update_data is read.
Updated(apt, st, notes, other, t) ==
    [apt EXCEPT !.status = IF st = Absent THEN @ ELSE st,
                !.notes = IF notes = Absent THEN @ ELSE notes,
                !.updated_at = t]

\* update_appointment_status, api.py:540-583.
UpdateAppointmentStatus(c, aid, st, notes, other) ==
    /\ resp = NoResp
    /\ Exists(c)
    /\ IF users[c].role \notin {DOCTOR, PATIENT}
       THEN /\ resp' = Response("update_appointment", c, 403, <<>>, aid, other)
            /\ UNCHANGED appts
       ELSE IF aid \notin 1..Len(appts)
       THEN /\ resp' = Response("update_appointment", c, 404, <<>>, aid, other)
            /\ UNCHANGED appts
       ELSE IF ~OwnAppointment(c, aid)
       THEN /\ resp' = Response("update_appointment", c, 403, <<>>, aid, other)
            /\ UNCHANGED appts
       ELSE /\ appts' = [appts EXCEPT ![aid] = Updated(@, st, notes, other, now)]
            /\ resp' = Response("update_appointment", c, 200, <<>>, aid, other)
    /\ UNCHANGED <<users, records, grants, logs, disk, req, loop, nreq, now>>
    /\ UNCHANGED <<metrics, session, reg>>

----------------------------------------------------------------------------
\* The other endpoints, as far as their role checks and their writes go.

\* search_patients, api.py:393-436, with no filter: every patient.
SearchPatients(c) ==
    /\ resp = NoResp
    /\ Exists(c)
    /\ IF users[c].role # DOCTOR
       THEN resp' = Response("search_patients", c, 403, <<>>, 0, 0)
       ELSE LET IsPatient(u) == users[u].role = PATIENT
            IN resp' = Response("search_patients", c, 200,
                                SelectSeq(Ids(users), IsPatient), 0, 0)
    /\ UNCHANGED <<users, records, grants, logs, disk, req, loop, nreq, now>>
    /\ UNCHANGED <<appts, metrics, session, reg>>

\* CRITICAL_VALUES, config.py:57-63.  Metric values are kept in tenths of
\* the unit (36.1 is 361), so that every threshold is an integer.
CRITICAL_VALUES ==
    ("blood_pressure_systolic" :> [min |-> 900, max |-> 1400]) @@
    ("blood_pressure_diastolic" :> [min |-> 600, max |-> 900]) @@
    ("heart_rate" :> [min |-> 600, max |-> 1000]) @@
    ("temperature" :> [min |-> 361, max |-> 372]) @@
    ("blood_sugar" :> [min |-> 700, max |-> 1400])

\* calculate_trend, utils.py:180-191.
calculate_trend(values) ==
    IF Len(values) < 2 THEN "insufficient_data"
    ELSE IF Last(values) > values[1] THEN "increasing"
    ELSE IF Last(values) < values[1] THEN "decreasing"
    ELSE "stable"

\* utils.py:200: value < thresholds["min"] or value > thresholds["max"].
OutOfBand(v, th) == v < th.min \/ v > th.max

Severity_Inclusive(v, th) ==
    IF v * 10 <= th.min * 8 \/ v * 10 >= th.max * 12
    THEN "critical" ELSE "warning"

\* utils.py:204: value < min * 0.8 or value > max * 1.2, in exact arithmetic.
Severity(v, th) ==
    IF v * 10 < th.min * 8 \/ v * 10 > th.max * 12
    THEN "critical" ELSE "warning"

\* check_critical_values, utils.py:193-207: one alert per value out of
\* band, in the order of the values.
check_critical_values(metric_name, values) ==
    IF metric_name \notin DOMAIN CRITICAL_VALUES
    THEN <<>>
    ELSE LET th == CRITICAL_VALUES[metric_name]
             Out(i) == OutOfBand(values[i], th)
             idx == SelectSeq(Ids(values), Out)
         IN [k \in 1..Len(idx) |->
                [value |-> values[idx[k]],
                 severity |-> Severity(values[idx[k]], th)]]

\* df['metric_name'].unique(), utils.py:166: the names in the order of
\* their first appearance.
UniqueNames(data) ==
    LET First(i) == \A j \in 1..(i - 1) :
                        data[j].metric_name # data[i].metric_name
        idx == SelectSeq(Ids(data), First)
    IN [k \in 1..Len(idx) |-> data[idx[k]].metric_name]

\* df[df['metric_name'] == metric_name], utils.py:167: the rows of one
\* name, in the order of the input.
Group(data, metric_name) ==
    LET Named(row) == row.metric_name = metric_name
    IN SelectSeq(data, Named)

\* sort_values('recorded_at'), utils.py:167.  The default kind of
\* sort_values is 'quicksort', for which pandas promises no order among
\* rows of equal key: every ascending arrangement is an outcome.
sort_values(rows) ==
    LET n == Len(rows)
        Ascending(p) == \A i, j \in 1..n :
                            i < j => rows[p[i]].recorded_at
                                        <= rows[p[j]].recorded_at
    IN {[i \in 1..n |-> rows[p[i]]] :
            p \in {q \in Permutations(1..n) : Ascending(q)}}

RECURSIVE Sum(_)
Sum(values) ==
    IF values = <<>> THEN 0 ELSE values[1] + Sum(Tail(values))

\* The entry of one metric name, utils.py:169-176, from its sorted rows.
\* The mean is kept as the pair (sum, count).
GroupAnalysis(metric_name, metric_df) ==
    LET values == [i \in 1..Len(metric_df) |-> metric_df[i].value]
    IN [metric_name |-> metric_name,
        latest_value |-> Last(values),
        average |-> <<Sum(values), Len(values)>>,
        min |-> CHOOSE v \in Range(values) : \A w \in Range(values) : v <= w,
        max |-> CHOOSE v \in Range(values) : \A w \in Range(values) : v >= w,
        trend |-> calculate_trend(values),
        critical_alerts |-> check_critical_values(metric_name, values)]

\* analyze_health_metrics, utils.py:158-178: the analyses the call can
\* return, each a sequence of entries in the order of the dict's keys.
analyze_health_metrics(metrics_data) ==
    LET names == UniqueNames(metrics_data)
        Entries(k) == {GroupAnalysis(names[k], df) :
                          df \in sort_values(Group(metrics_data, names[k]))}
    IN {a \in [1..Len(names) -> UNION {Entries(k) : k \in 1..Len(names)}] :
            \A k \in 1..Len(names) : a[k] \in Entries(k)}

\* add_health_metric, api.py:484-509.
AddHealthMetric(c, name, value, recorded_at) ==
    /\ resp = NoResp
    /\ Exists(c)
    /\ Len(metrics) < MaxMetrics
    /\ IF users[c].role # PATIENT
       THEN /\ resp' = Response("add_metric", c, 403, <<>>, 0, 0)
            /\ UNCHANGED metrics
       ELSE /\ metrics' = Append(metrics, [patient_id |-> c,
                                           metric_name |-> name,
                                           value |-> value,
                                           recorded_at |-> recorded_at])
            /\ resp' = Response("add_metric", c, 200, <<>>, 0, 0)
    /\ UNCHANGED <<users, records, grants, logs, disk, req, loop, nreq, now>>
    /\ UNCHANGED <<appts, session, reg>>

MyMetrics_All(c) == metrics

\* api.py:524: filter(HealthMetric.patient_id == current_user.id).
MyMetrics(c) ==
    LET Mine(row) == row.patient_id = c
    IN SelectSeq(metrics, Mine)

\* get_health_analysis, api.py:511-538: the caller's metrics are analysed.
GetHealthAnalysis(c) ==
    /\ resp = NoResp
    /\ Exists(c)
    /\ IF users[c].role # PATIENT
       THEN resp' = Response("analysis", c, 403, <<>>, 0, 0)
       ELSE \E analysis \in analyze_health_metrics(MyMetrics(c)) :
               resp' = Response("analysis", c, 200, analysis, 0, 0)
    /\ UNCHANGED <<users, records, grants, logs, disk, req, loop, nreq, now>>
    /\ UNCHANGED <<appts, metrics, session, reg>>

\* get_all_users, api.py:586-612.
GetAllUsers(c) ==
    /\ resp = NoResp
    /\ Exists(c)
    /\ IF users[c].role # ADMIN
       THEN resp' = Response("all_users", c, 403, <<>>, 0, 0)
       ELSE resp' = Response("all_users", c, 200, Ids(users), 0, 0)
    /\ UNCHANGED <<users, records, grants, logs, disk, req, loop, nreq, now>>
    /\ UNCHANGED <<appts, metrics, session, reg>>

\* get_system_statistics, api.py:614-643: the body is the six counts.
GetSystemStatistics(c) ==
    /\ resp = NoResp
    /\ Exists(c)
    /\ IF users[c].role # ADMIN
       THEN resp' = Response("statistics", c, 403, <<>>, 0, 0)
       ELSE LET Count(role) ==
                    Cardinality({u \in 1..Len(users) : users[u].role = role})
            IN resp' = Response("statistics", c, 200,
                                <<Len(users), Count(PATIENT), Count(DOCTOR),
                                  Len(records), Len(appts), Len(metrics)>>,
                                0, 0)
    /\ UNCHANGED <<users, records, grants, logs, disk, req, loop, nreq, now>>
    /\ UNCHANGED <<appts, metrics, session, reg>>

\* The endpoints that take current_user: User = Depends(get_current_user).
Protected ==
    {"upload", "my_records", "grant", "create_appointment",
     "my_appointments", "search_patients", "patient_records", "add_metric",
     "analysis", "update_appointment", "all_users", "statistics",
     "audit_logs"}

\* A request to a protected endpoint whose credentials do not resolve: the
\* dependency raises and the handler is not entered.  Without a header
\* HTTPBearer refuses the request, with a token get_current_user does.
Unauthorized(op, cred) ==
    /\ resp = NoResp
    /\ op \in Protected
    /\ \/ /\ cred.kind = "none"
          /\ \E st \in HTTPBearerRefusal :
                resp' = [Response(op, 0, st, <<>>, 0, 0) EXCEPT !.cred = cred]
       \/ /\ cred.kind = "bearer"
          /\ get_current_user(cred, now) = 0
          /\ resp' = [Response(op, 0, 401, <<>>, 0, 0) EXCEPT !.cred = cred]
    /\ UNCHANGED <<users, records, grants, logs, disk, req, loop, nreq, now>>
    /\ UNCHANGED <<appts, metrics, session, reg>>

\* The users a handler can be entered as at time t: those some token
\* resolves to.
Callers(t) == {get_current_user(cred, t) : cred \in AnyToken(t)} \ {0}

----------------------------------------------------------------------------
\* Specifications.  Each takes the operations its claims are about and
\* just enough of the others to reach the states they need.

\* No upload is in flight.
Quiet == \A q \in Slots : req[q].pc = "idle"

\* One upload at a time of a valid file, as every user.
UploadOne ==
    \/ \E c \in UserIds : UploadOpen(1, c, PdfName, MAX_FILE_SIZE, TRUE)
    \/ UploadStep(1, {TRUE})

\* One more patient registers, under a fresh username and email.
RegisterPatient ==
    Quiet /\ Register(Len(users) + 1, Len(users) + 1, PATIENT)

\* The vault: concurrent uploads, every file name, size and date, and
\* commits that may fail.
NextVault ==
    \/ SendResponse
    \/ \E q \in Slots, c \in UserIds, f \in FileNames, sz \in Sizes,
          d \in BOOLEAN : UploadOpen(q, c, f, sz, d)
    \/ \E q \in Slots : UploadStep(q, BOOLEAN)

SpecVault == Init /\ [][NextVault]_vars

\* Granting: every caller, every record id, every doctor id.
NextGrant ==
    \/ SendResponse
    \/ UploadOne
    \/ RegisterPatient
    \/ Quiet /\ \E c \in UserIds, rid \in AnyRecordId, did \in AnyUserId :
                   GrantRecordAccess(c, rid, did, None)

SpecGrant == Init /\ [][NextGrant]_vars

\* Granting, with accounts that are deactivated.
NextDoctor ==
    \/ NextGrant
    \/ Quiet /\ \E u \in UserIds : DeactivateUser(u)

SpecDoctor == Init /\ [][NextDoctor]_vars

\* Expiry: grants with every expires_at, read as time passes.
NextExpiry ==
    \/ SendResponse
    \/ UploadOne
    \/ Tick
    \/ Quiet /\ \E c \in UserIds, rid \in 1..MaxRecords, did \in UserIds,
                   exp \in Expiries : GrantRecordAccess(c, rid, did, exp)
    \/ Quiet /\ \E c \in UserIds, p \in UserIds : GetPatientRecords(c, p, TRUE)

SpecExpiry == Init /\ [][NextExpiry]_vars

\* Privacy: several patients, their records, grants made and revoked, and
\* every reader.
NextPrivacy ==
    \/ SendResponse
    \/ UploadOne
    \/ RegisterPatient
    \/ Quiet /\ \E c \in UserIds, rid \in 1..MaxRecords :
                   GrantRecordAccess(c, rid, 2, None)
    \/ Quiet /\ \E g \in 1..MaxGrants : DeactivateGrant(g)
    \/ Quiet /\ \E c \in UserIds : GetMyRecords(c)
    \/ Quiet /\ \E c \in UserIds, p \in UserIds : GetPatientRecords(c, p, TRUE)
    \/ Quiet /\ \E c \in UserIds : GetAuditLogs(c, MaxLimit)

SpecPrivacy == Init /\ [][NextPrivacy]_vars

\* The audit trail: everything that writes or reads access_logs, as time
\* passes.
NextAudit ==
    \/ SendResponse
    \/ UploadOne
    \/ Tick
    \/ Quiet /\ \E rid \in 1..MaxRecords : GrantRecordAccess(1, rid, 2, None)
    \/ Quiet /\ \E c \in UserIds, p \in UserIds, ok \in BOOLEAN :
                   GetPatientRecords(c, p, ok)
    \/ Quiet /\ \E c \in UserIds, limit \in 0..MaxLimit : GetAuditLogs(c, limit)

SpecAudit == Init /\ [][NextAudit]_vars

\* Registration: concurrent requests, every username, email and role.
NextRegister ==
    \/ SendResponse
    \/ \E s \in RegSlots, un \in AnyName, em \in AnyName, role \in Roles :
          RegisterCheck(s, un, em, role)
    \/ \E s \in RegSlots : RegisterCommit(s)

SpecRegister == Init /\ [][NextRegister]_vars

\* Tokens: logins, the passing of time, and requests that carry the token
\* the client holds or any other.
NextToken ==
    \/ SendResponse
    \/ \E un \in AnyName, pw_ok \in BOOLEAN : Login(un, pw_ok)
    \/ \E d \in 1..MaxMinutes : Elapse(d)
    \/ \E cred \in {session} \cup AnyToken(now) : GetCurrentUser(cred)

SpecToken == Init /\ [][NextToken]_vars

\* Tokens, with accounts that are deactivated.
NextResolve ==
    \/ NextToken
    \/ \E u \in UserIds : DeactivateUser(u)

SpecResolve == Init /\ [][NextResolve]_vars

\* Appointments: made and updated by every caller, for every patient and
\* doctor id, with every status and notes.
NextAppointments ==
    \/ SendResponse
    \/ RegisterPatient
    \/ \E c \in UserIds, pid \in AnyUserId, did \in AnyUserId :
          CreateAppointment(c, pid, did)
    \/ \E c \in UserIds, aid \in AnyAppointmentId, st \in AnyStatus,
          notes \in AnyNotes : UpdateAppointmentStatus(c, aid, st, notes, <<>>)
    \/ \E c \in UserIds : GetMyAppointments(c)

SpecAppointments == Init /\ [][NextAppointments]_vars

\* Grants made, repeated and revoked, and the doctor's reads.
NextRevoke ==
    \/ SendResponse
    \/ UploadOne
    \/ RegisterPatient
    \/ Quiet /\ \E c \in UserIds, rid \in 1..MaxRecords :
                   GrantRecordAccess(c, rid, 2, None)
    \/ Quiet /\ \E g \in 1..MaxGrants : DeactivateGrant(g)
    \/ Quiet /\ \E p \in UserIds : GetPatientRecords(2, p, TRUE)

SpecRevoke == Init /\ [][NextRevoke]_vars

\* Appointments, updated by every caller: one status, with or without
\* notes.
NextParties ==
    \/ SendResponse
    \/ \E role \in {PATIENT, DOCTOR} :
          Register(Len(users) + 1, Len(users) + 1, role)
    \/ \E c \in UserIds, pid \in AnyUserId, did \in AnyUserId :
          CreateAppointment(c, pid, did)
    \/ \E c \in UserIds, aid \in AnyAppointmentId, st \in {CONFIRMED, Absent},
          notes \in AnyNotes : UpdateAppointmentStatus(c, aid, st, notes, <<>>)

SpecParties == Init /\ [][NextParties]_vars

\* The gate: every protected endpoint, called with credentials that do not
\* resolve and as every user a token resolves to.
NextGate ==
    \/ SendResponse
    \/ \E op \in Protected, cred \in {NoCredentials} \cup AnyToken(now) :
          cred.sub \in {NoSub, 1} /\ Unauthorized(op, cred)
    \/ \E c \in Callers(now) : UploadOpen(1, c, PdfName, MAX_FILE_SIZE, TRUE)
    \/ UploadStep(1, {TRUE})
    \/ Quiet /\ \E c \in Callers(now) : GetMyRecords(c)
    \/ Quiet /\ \E c \in Callers(now) : GrantRecordAccess(c, 1, 2, None)
    \/ Quiet /\ \E c \in Callers(now) : CreateAppointment(c, 1, 2)
    \/ Quiet /\ \E c \in Callers(now) : GetMyAppointments(c)
    \/ Quiet /\ \E c \in Callers(now) : SearchPatients(c)
    \/ Quiet /\ \E c \in Callers(now) : GetPatientRecords(c, 1, TRUE)
    \/ Quiet /\ \E c \in Callers(now) :
                   AddHealthMetric(c, "heart_rate", 720, 0)
    \/ Quiet /\ \E c \in Callers(now) : GetHealthAnalysis(c)
    \/ Quiet /\ \E c \in Callers(now) :
                   UpdateAppointmentStatus(c, 1, CONFIRMED, Absent, <<>>)
    \/ Quiet /\ \E c \in Callers(now) : GetAllUsers(c)
    \/ Quiet /\ \E c \in Callers(now) : GetSystemStatistics(c)
    \/ Quiet /\ \E c \in Callers(now) : GetAuditLogs(c, MaxLimit)

SpecGate == Init /\ [][NextGate]_vars

\* Metrics: one patient submits measurements of two names, with equal and
\* with different recording times, and asks for the analysis.
TrendInputs == {"heart_rate", "steps"} \X {700, 710, 720} \X (0..MaxTime)

NextTrend ==
    \/ SendResponse
    \/ \E in \in TrendInputs : AddHealthMetric(1, in[1], in[2], in[3])
    \/ GetHealthAnalysis(1)

SpecTrend == Init /\ [][NextTrend]_vars

\* Alerts: one patient submits values inside the band, on its bounds, out
\* of it and 20% beyond it, under names with and without thresholds.
AlertInputs ==
    ({"heart_rate"} \X {479, 480, 600, 700, 1100, 1200, 1201})
    \cup ({"temperature"} \X {288, 289, 447})
    \cup ({"steps"} \X {1201})

NextAlerts ==
    \/ SendResponse
    \/ \E in \in AlertInputs : AddHealthMetric(1, in[1], in[2], 0)
    \/ GetHealthAnalysis(1)

SpecAlerts == Init /\ [][NextAlerts]_vars

\* Isolation: two patients (and the users who are refused) submit
\* measurements and ask for their analyses.
IsolationInputs == {"heart_rate"} \X {700, 1100} \X {0, 1}

NextIsolation ==
    \/ SendResponse
    \/ RegisterPatient
    \/ \E c \in UserIds, in \in IsolationInputs :
          AddHealthMetric(c, in[1], in[2], in[3])
    \/ \E c \in UserIds : GetHealthAnalysis(c)

SpecIsolation == Init /\ [][NextIsolation]_vars

\* The pipeline: uploads of every file name, of both sizes, with a good and
\* a bad record_date, by a patient and by a doctor, overlapping at the
\* await.
NextPipeline ==
    \/ SendResponse
    \/ \E q \in Slots, c \in {1, 2}, f \in FileNames, sz \in Sizes,
          d \in BOOLEAN : UploadOpen(q, c, f, sz, d)
    \/ \E q \in Slots : UploadStep(q, {TRUE})

SpecPipeline == Init /\ [][NextPipeline]_vars

\* The frame of an update: appointments between patient 1 and doctor 2,
\* updated by the patient, the doctor and the admin with every combination
\* of keys, as time passes.
NextFrame ==
    \/ SendResponse
    \/ Tick
    \/ \E c \in {1, 2} : CreateAppointment(c, 1, 2)
    \/ \E c \in {1, 2, 3}, aid \in AnyAppointmentId,
          st \in {CONFIRMED, Absent}, notes \in AnyNotes, other \in OtherKeys :
          UpdateAppointmentStatus(c, aid, st, notes, other)

SpecFrame == Init /\ [][NextFrame]_vars

\* Views: patient 1 uploads records and grants them to doctor 2, more than
\* once each; grants are deactivated; doctor 2 and the others read.
NextViews ==
    \/ SendResponse
    \/ UploadOne
    \/ Quiet /\ \E rid \in 1..MaxRecords : GrantRecordAccess(1, rid, 2, None)
    \/ Quiet /\ \E g \in 1..MaxGrants : DeactivateGrant(g)
    \/ Quiet /\ \E c \in {1, 2} : GetPatientRecords(c, 1, TRUE)

SpecViews == Init /\ [][NextViews]_vars

----------------------------------------------------------------------------
\* Vocabulary of the claims, stated on the tables and not on the handlers'
\* own operators.

RecordIds == 1..Len(records)
GrantIds == 1..Len(grants)
LogIds == 1..Len(logs)

RoleOf(c) == IF Exists(c) THEN users[c].role ELSE "nobody"

Owns(c, r) == r \in RecordIds /\ records[r].patient_id = c

\* The grant is in force at time t.
Effective(g, t) ==
    /\ grants[g].is_active
    /\ (grants[g].expires_at = None \/ t <= grants[g].expires_at)

NoDuplicates(s) == \A i, j \in 1..Len(s) : i # j => s[i] # s[j]

----------------------------------------------------------------------------
\* C1: every record get_patient_records returns to doctor d is covered by
\* a grant naming d that is active and not expired at the time of the read.
C1_OnlyEffectiveGrants ==
    (resp.op = "patient_records" /\ resp.status = 200) =>
        \A i \in 1..Len(resp.body) :
            \E g \in GrantIds :
                /\ grants[g].record_id = resp.body[i]
                /\ grants[g].doctor_id = resp.caller
                /\ Effective(g, now)

----------------------------------------------------------------------------
\* C2: get_my_records returns exactly the caller's records; the other
\* endpoints that read records or their audit trail answer a patient with
\* 403 and nothing; a doctor with no active grant on any record of patient
\* p gets an empty list for p.
C2_Privacy ==
    /\ (resp.op = "my_records" /\ resp.status = 200) =>
          /\ Range(resp.body) = {r \in RecordIds : records[r].patient_id = resp.caller}
          /\ NoDuplicates(resp.body)
    /\ (resp.op \in {"patient_records", "audit_logs"}
            /\ RoleOf(resp.caller) = PATIENT) =>
          (resp.status = 403 /\ resp.body = <<>>)
    /\ (resp.op = "patient_records" /\ resp.status = 200
            /\ ~\E g \in GrantIds :
                  /\ grants[g].is_active
                  /\ grants[g].doctor_id = resp.caller
                  /\ Owns(resp.arg, grants[g].record_id)) =>
          resp.body = <<>>

\* A patient reads their records while another patient has records too.
C2_Witness ==
    /\ resp.op = "my_records"
    /\ resp.status = 200
    /\ resp.body # <<>>
    /\ \E r \in RecordIds : records[r].patient_id # resp.caller

----------------------------------------------------------------------------
\* C3, as stated: every grant was made by the owner of its record, and a
\* grant request by a caller who does not own the record (or for a record
\* that does not exist) is answered 404.
C3_NotOwnerIs404 ==
    /\ \A g \in GrantIds : Owns(grants[g].granted_by, grants[g].record_id)
    /\ (resp.op = "grant" /\ ~Owns(resp.caller, resp.arg)) => resp.status = 404

\* C3, amended: every grant was made by the owner of its record; a grant
\* request by a caller who does not own the record is answered 404 when
\* the caller is a patient and 403 otherwise, and adds no row.
C3_OnlyOwnerGrants ==
    /\ [](/\ \A g \in GrantIds : Owns(grants[g].granted_by, grants[g].record_id)
          /\ (resp.op = "grant" /\ ~Owns(resp.caller, resp.arg)) =>
                resp.status = (IF RoleOf(resp.caller) = PATIENT THEN 404 ELSE 403))
    /\ [][(resp'.op = "grant" /\ ~Owns(resp'.caller, resp'.arg)) =>
             grants' = grants]_vars

\* A patient asks to grant access to a record of another patient.
C3_Witness ==
    /\ resp.op = "grant"
    /\ RoleOf(resp.caller) = PATIENT
    /\ resp.arg \in RecordIds
    /\ records[resp.arg].patient_id # resp.caller
    /\ resp.status = 404

----------------------------------------------------------------------------
\* C4: a grant request by the record's owner whose doctor_id is not the id
\* of an active doctor account is answered 404.
C4_InactiveDoctorIs404 ==
    (/\ resp.op = "grant"
     /\ RoleOf(resp.caller) = PATIENT
     /\ Owns(resp.caller, resp.arg)
     /\ ~(/\ Exists(resp.arg2)
          /\ users[resp.arg2].role = DOCTOR
          /\ users[resp.arg2].is_active)) =>
        resp.status = 404

----------------------------------------------------------------------------
\* C5: a call of get_patient_records that returns records appends exactly
\* one "view" entry per record returned, by the calling doctor, and nothing
\* else; a call that returns no records (refused, or failed at the commit)
\* appends nothing.
C5_ViewsLogged ==
    [][resp'.op = "patient_records" =>
          IF resp'.status = 200
          THEN /\ NoDuplicates(resp'.body)
               /\ logs' = logs \o
                     [i \in 1..Len(resp'.body) |->
                         [user_id |-> resp'.caller,
                          record_id |-> resp'.body[i],
                          action |-> "view",
                          timestamp |-> now]]
          ELSE /\ resp'.body = <<>>
               /\ logs' = logs]_vars

\* A doctor has been returned two records in one call.
C5_Witness ==
    /\ resp.op = "patient_records"
    /\ resp.status = 200
    /\ Len(resp.body) = 2

----------------------------------------------------------------------------
\* C6: once no upload is between its two commits, every health record has
\* exactly one "upload" entry by its patient in the audit trail.
C6_UploadLogged ==
    (\A q \in Slots : req[q].pc # "persisted") =>
        \A r \in RecordIds :
            Cardinality({l \in LogIds :
                            /\ logs[l].action = "upload"
                            /\ logs[l].record_id = r
                            /\ logs[l].user_id = records[r].patient_id}) = 1

----------------------------------------------------------------------------
\* C7: no step changes or removes an entry of the audit trail.
C7_AppendOnly ==
    [][/\ Len(logs') >= Len(logs)
       /\ \A l \in LogIds : logs'[l] = logs[l]]_vars

\* Views have been appended to a trail that already held entries.
C7_Witness ==
    /\ resp.op = "patient_records"
    /\ resp.body # <<>>
    /\ Len(logs) > Len(resp.body)

----------------------------------------------------------------------------
\* C8: get_audit_logs answers anyone but an admin with 403 and nothing;
\* it returns to an admin min(limit, total) distinct entries, latest
\* first, none of them older than an entry left out.
C8_AuditPage ==
    resp.op = "audit_logs" =>
        IF RoleOf(resp.caller) # ADMIN
        THEN resp.status = 403 /\ resp.body = <<>>
        ELSE /\ resp.status = 200
             /\ Len(resp.body) = Min(resp.arg, Len(logs))
             /\ Range(resp.body) \subseteq LogIds
             /\ NoDuplicates(resp.body)
             /\ \A i, j \in 1..Len(resp.body) :
                   i < j => logs[resp.body[i]].timestamp
                               >= logs[resp.body[j]].timestamp
             /\ \A l \in LogIds \ Range(resp.body) :
                   \A i \in 1..Len(resp.body) :
                       logs[resp.body[i]].timestamp >= logs[l].timestamp

\* An admin gets a page shorter than the trail, whose entries differ in
\* time.
C8_Witness ==
    /\ resp.op = "audit_logs"
    /\ resp.status = 200
    /\ resp.body # <<>>
    /\ Len(resp.body) < Len(logs)
    /\ \E l \in LogIds : logs[l].timestamp < logs[resp.body[1]].timestamp

----------------------------------------------------------------------------
\* C9: after an upload has failed, every health record's encrypted file is
\* on disk and every encrypted file on disk belongs to a health record.
C9_AllOrNothing ==
    (resp.op = "upload" /\ resp.status # 200) =>
        /\ \A r \in RecordIds : disk[records[r].file_path].form = "cipher"
        /\ \A p \in Paths :
              disk[p].form = "cipher" =>
                  \E r \in RecordIds : records[r].file_path = p

----------------------------------------------------------------------------
\* The upload is of a file over the size limit or of a type not allowed.
Inadmissible(name, size) ==
    \/ size > MAX_FILE_SIZE
    \/ Ext(name) \notin {"pdf", "jpg", "jpeg", "png", "txt", "doc", "docx"}

\* C10: an upload of a file over the size limit or of a type not allowed
\* is rejected (with 400, says the claim; any refusal passes here) and
\* leaves no file holding its bytes.
C10_Rejected ==
    (/\ resp.op = "upload"
     /\ Inadmissible(resp.name, resp.size)) =>
        /\ resp.status # 200
        /\ \A p \in Paths : disk[p] # NoFile => disk[p].by # resp.no

----------------------------------------------------------------------------
\* No two users share a username, no two share an email.
UniqueUsers ==
    \A i, j \in 1..Len(users) :
        i # j => /\ users[i].username # users[j].username
                 /\ users[i].email # users[j].email

\* C11: no two users share a username or an email, and a registration
\* either adds the user it was sent or is answered 400, its username or
\* email being taken.
C11_UniqueOr400 ==
    /\ UniqueUsers
    /\ resp.op = "register" =>
          IF resp.status = 200
          THEN /\ Len(resp.body) = 1
               /\ resp.body[1] \in 1..Len(users)
               /\ users[resp.body[1]].username = resp.arg
               /\ users[resp.body[1]].email = resp.arg2
          ELSE /\ resp.status = 400
               /\ Taken(resp.arg, resp.arg2)

----------------------------------------------------------------------------
\* C12: the token login_user issues to a user at time t carries the user's
\* username and expires at t + 30 minutes; the token the client holds
\* resolves to the user of that name at every time before its expiry and
\* is answered 401 at every time after it.
C12_TokenLifetime ==
    /\ (resp.op = "login" /\ resp.status = 200) =>
          /\ resp.caller \in 1..Len(users)
          /\ resp.cred = Bearer(users[resp.caller].username,
                                now + TOKEN_MINUTES, TRUE)
          /\ session = resp.cred
    /\ (resp.op = "resolve" /\ resp.cred = session) =>
          /\ now < session.exp =>
                /\ resp.status = 200
                /\ resp.caller \in 1..Len(users)
                /\ users[resp.caller].username = session.sub
          /\ now > session.exp =>
                /\ resp.status = 401
                /\ resp.caller = 0

\* The token the client holds is presented after its expiry.
C12_Witness ==
    /\ resp.op = "resolve"
    /\ resp.cred = session
    /\ now > session.exp
    /\ resp.status = 401

----------------------------------------------------------------------------
\* C13: a request whose token has a wrong signature, is expired, has no
\* "sub", or names no active user is answered 401.
C13_Unauthorized ==
    (/\ resp.op = "resolve"
     /\ \/ ~resp.cred.signed
        \/ resp.cred.exp < now
        \/ resp.cred.sub = NoSub
        \/ ~\E u \in 1..Len(users) :
               /\ users[u].username = resp.cred.sub
               /\ users[u].is_active) =>
        resp.status = 401

----------------------------------------------------------------------------
AppointmentIds == 1..Len(appts)

\* The transitions of the appointment state machine.
Forward ==
    {<<PENDING, CONFIRMED>>, <<PENDING, CANCELLED>>,
     <<CONFIRMED, COMPLETED>>, <<CONFIRMED, CANCELLED>>}

\* C16: the status of an appointment is always one of pending, confirmed,
\* completed, cancelled, and a step changes it only along pending ->
\* confirmed, pending -> cancelled, confirmed -> completed, confirmed ->
\* cancelled.
C16_ForwardOnly ==
    /\ [](\A a \in AppointmentIds :
             appts[a].status \in {PENDING, CONFIRMED, COMPLETED, CANCELLED})
    /\ [][\A a \in AppointmentIds :
             \/ appts'[a].status = appts[a].status
             \/ <<appts[a].status, appts'[a].status>> \in Forward]_vars

----------------------------------------------------------------------------
\* The caller is a party to the appointment: its patient, being a patient,
\* or its doctor, being a doctor.
IsParty(c, a) ==
    /\ a \in AppointmentIds
    /\ \/ RoleOf(c) = PATIENT /\ appts[a].patient_id = c
       \/ RoleOf(c) = DOCTOR /\ appts[a].doctor_id = c

\* C17, as stated: an update by a caller who is no party to the appointment
\* leaves every appointment unchanged and is answered 404 if the
\* appointment does not exist, 403 otherwise.
C17_NonParty403Or404 ==
    [][(/\ resp'.op = "update_appointment"
        /\ ~IsParty(resp'.caller, resp'.arg)) =>
          /\ appts' = appts
          /\ resp'.status = IF resp'.arg \in AppointmentIds THEN 403 ELSE 404]_vars

\* C17, amended: an update by a caller who is no party to the appointment
\* leaves every appointment unchanged; it is answered 403 when the caller
\* is neither a patient nor a doctor, else 404 when the appointment does
\* not exist, else 403.  An update changes no other appointment than the
\* one it names.
C17_OnlyParties ==
    [][resp'.op = "update_appointment" =>
          IF IsParty(resp'.caller, resp'.arg)
          THEN \A a \in AppointmentIds :
                  a # resp'.arg => appts'[a] = appts[a]
          ELSE /\ appts' = appts
               /\ resp'.status =
                     IF RoleOf(resp'.caller) \notin {PATIENT, DOCTOR} THEN 403
                     ELSE IF resp'.arg \in AppointmentIds THEN 403
                     ELSE 404]_vars

\* A patient is refused the update of another patient's appointment.
C17_Witness ==
    /\ resp.op = "update_appointment"
    /\ resp.status = 403
    /\ RoleOf(resp.caller) = PATIENT
    /\ resp.arg \in AppointmentIds
    /\ appts[resp.arg].patient_id # resp.caller

----------------------------------------------------------------------------
\* C18: the appointment a patient creates has the patient as its
\* patient_id, the appointment a doctor creates has the doctor as its
\* doctor_id.
C18_CreatorIsParty ==
    (resp.op = "create_appointment" /\ resp.status = 200) =>
        LET a == appts[resp.body[1]] IN
        /\ RoleOf(resp.caller) = PATIENT => a.patient_id = resp.caller
        /\ RoleOf(resp.caller) = DOCTOR => a.doctor_id = resp.caller

----------------------------------------------------------------------------
\* C15: every user's role is one of patient, doctor, admin, and no step
\* changes the role of a user.
C15_RolesFixed ==
    /\ [](\A u \in 1..Len(users) : users[u].role \in {PATIENT, DOCTOR, ADMIN})
    /\ [][\A u \in 1..Len(users) : users'[u].role = users[u].role]_vars

----------------------------------------------------------------------------
\* Doctor d holds an active grant on record r.
Granted(d, r) ==
    \E g \in GrantIds : /\ grants[g].record_id = r
                        /\ grants[g].doctor_id = d
                        /\ grants[g].is_active

\* C19: what get_patient_records returns to doctor d for patient p is, each
\* once, the records of p on which d holds an active grant: a record
\* granted to d is included, a record whose grants to d are all
\* deactivated is not.
C19_GrantedThenVisible ==
    (resp.op = "patient_records" /\ resp.status = 200) =>
        /\ NoDuplicates(resp.body)
        /\ Range(resp.body) = {r \in RecordIds :
                                  /\ records[r].patient_id = resp.arg
                                  /\ Granted(resp.caller, r)}

\* The doctor reads after a grant was deactivated: a record of the patient
\* that was granted to the doctor is not returned.
C19_Witness ==
    /\ resp.op = "patient_records"
    /\ resp.status = 200
    /\ \E r \in RecordIds :
          /\ records[r].patient_id = resp.arg
          /\ \E g \in GrantIds : /\ grants[g].record_id = r
                                 /\ grants[g].doctor_id = resp.caller
          /\ ~Granted(resp.caller, r)
          /\ r \notin Range(resp.body)
    /\ resp.body # <<>>

----------------------------------------------------------------------------
\* C20: each successful grant_record_access adds one active row for the
\* record and the doctor named, granted by the caller, and changes no row
\* that was there.
C20_GrantsAccumulate ==
    [][(resp'.op = "grant" /\ resp'.status = 200) =>
          /\ Len(grants') = Len(grants) + 1
          /\ \A g \in GrantIds : grants'[g] = grants[g]
          /\ grants'[Len(grants')].record_id = resp'.arg
          /\ grants'[Len(grants')].doctor_id = resp'.arg2
          /\ grants'[Len(grants')].granted_by = resp'.caller
          /\ grants'[Len(grants')].is_active]_vars

\* A record has been granted twice to the same doctor, and both grants are
\* active.
C20_Witness ==
    /\ resp.op = "grant"
    /\ resp.status = 200
    /\ \E g, h \in GrantIds :
          /\ g # h
          /\ grants[g].record_id = grants[h].record_id
          /\ grants[g].doctor_id = grants[h].doctor_id
          /\ grants[g].is_active
          /\ grants[h].is_active

----------------------------------------------------------------------------
\* The roles an endpoint is for.
Admits(op) ==
    CASE op \in {"upload", "my_records", "grant", "add_metric", "analysis"}
            -> {PATIENT}
      [] op \in {"search_patients", "patient_records"} -> {DOCTOR}
      [] op \in {"create_appointment", "my_appointments",
                 "update_appointment"} -> {PATIENT, DOCTOR}
      [] op \in {"all_users", "statistics", "audit_logs"} -> {ADMIN}

\* C14: a request to a protected endpoint without a valid bearer token is
\* answered 401, a request by a user whose role the endpoint does not
\* admit is answered 403, and neither changes a table or a file.
C14_Gate ==
    [][resp'.op \in Protected =>
          /\ resp'.caller = 0 =>
                /\ resp'.status = 401
                /\ UNCHANGED <<users, records, grants, logs, appts, metrics,
                               disk>>
          /\ (resp'.caller # 0
                /\ RoleOf(resp'.caller) \notin Admits(resp'.op)) =>
                /\ resp'.status = 403
                /\ UNCHANGED <<users, records, grants, logs, appts, metrics,
                               disk>>]_vars

----------------------------------------------------------------------------
\* The metrics patient p submitted under one name, by position in the table.
Submitted(p, name) ==
    {i \in 1..Len(metrics) : /\ metrics[i].patient_id = p
                             /\ metrics[i].metric_name = name}

Earliest(S) ==
    {i \in S : \A j \in S : metrics[i].recorded_at <= metrics[j].recorded_at}

Latest(S) ==
    {i \in S : \A j \in S : metrics[j].recorded_at <= metrics[i].recorded_at}

Analysed == resp.op = "analysis" /\ resp.status = 200

\* C21: in every analysis, the latest_value of a metric name is the value
\* of the entry with the greatest recorded_at and, among several entries
\* with that recorded_at, of the one submitted last.
C21_LatestValue ==
    Analysed =>
        \A k \in 1..Len(resp.body) :
            LET L == Latest(Submitted(resp.caller, resp.body[k].metric_name))
                last == CHOOSE i \in L : \A j \in L : j <= i
            IN resp.body[k].latest_value = metrics[last].value

TrendOf(f, l) ==
    IF l > f THEN "increasing" ELSE IF l < f THEN "decreasing" ELSE "stable"

\* C22: in every analysis, the trend of a metric name with fewer than two
\* entries is insufficient_data; otherwise it is the comparison of the
\* chronologically last value with the chronologically first one, whichever
\* entries of the smallest and of the greatest recorded_at the input order
\* puts first and last.
C22_Trend ==
    Analysed =>
        \A k \in 1..Len(resp.body) :
            LET S == Submitted(resp.caller, resp.body[k].metric_name)
            IN IF Cardinality(S) < 2
               THEN resp.body[k].trend = "insufficient_data"
               ELSE \A i \in Earliest(S), j \in Latest(S) :
                       resp.body[k].trend
                           = TrendOf(metrics[i].value, metrics[j].value)

\* C23: in every analysis, the critical_alerts of a metric name with a
\* threshold entry hold one alert per submitted value below min or above
\* max, no other alert, with severity critical when the value is below 0.8
\* min or above 1.2 max and warning otherwise; a name without a threshold
\* entry has no alert.
C23_Alerts ==
    Analysed =>
        \A k \in 1..Len(resp.body) :
            LET name == resp.body[k].metric_name
                alerts == resp.body[k].critical_alerts
                S == Submitted(resp.caller, name)
                th == CRITICAL_VALUES[name]
                Outside(v) == v < th.min \/ v > th.max
                Beyond(v) == 10 * v < 8 * th.min \/ 10 * v > 12 * th.max
            IN IF name \notin DOMAIN CRITICAL_VALUES
               THEN alerts = <<>>
               ELSE \A v \in {metrics[i].value : i \in S} \cup
                             {alerts[i].value : i \in 1..Len(alerts)} :
                       LET n == Cardinality({i \in S : metrics[i].value = v})
                           hits == {i \in 1..Len(alerts) : alerts[i].value = v}
                           crit == {i \in hits : alerts[i].severity = "critical"}
                           warn == {i \in hits : alerts[i].severity = "warning"}
                       IN /\ Cardinality(hits)
                               = (IF Outside(v) THEN n ELSE 0)
                          /\ Cardinality(crit)
                               = (IF Outside(v) /\ Beyond(v) THEN n ELSE 0)
                          /\ Cardinality(warn)
                               = (IF Outside(v) /\ ~Beyond(v) THEN n ELSE 0)

\* An analysis of three heart_rate values: one inside the band, one on the
\* 20% mark (a warning), one past it (critical).
C23_Witness ==
    /\ Analysed
    /\ \E k \in 1..Len(resp.body) :
          /\ resp.body[k].metric_name = "heart_rate"
          /\ {metrics[i].value : i \in Submitted(resp.caller, "heart_rate")}
                = {700, 1200, 1201}
          /\ Len(resp.body[k].critical_alerts) = 2

\* The metrics table without the rows of every patient but p.
MetricsOf(p) ==
    LET idx == SelectSeq(Ids(metrics),
                         LAMBDA i : metrics[i].patient_id = p)
    IN [k \in 1..Len(idx) |-> metrics[idx[k]]]

\* C30: a stored metric belongs to the patient who submitted it and later
\* submissions leave it as it is; the analysis a patient gets is an
\* analysis of that patient's metrics alone, so that the metrics of the
\* others have no part in it.
C30_MetricsIsolated ==
    /\ [](Analysed => resp.body \in analyze_health_metrics(MetricsOf(resp.caller)))
    /\ [][metrics' # metrics =>
             /\ resp'.op = "add_metric"
             /\ resp'.status = 200
             /\ Len(metrics') = Len(metrics) + 1
             /\ \A i \in 1..Len(metrics) : metrics'[i] = metrics[i]
             /\ metrics'[Len(metrics')].patient_id = resp'.caller
             /\ RoleOf(resp'.caller) = PATIENT]_vars

\* A patient gets an analysis while another patient has stored a metric
\* under the same name with another value.
C30_Witness ==
    /\ Analysed
    /\ resp.body # <<>>
    /\ \E i, j \in 1..Len(metrics) :
          /\ metrics[i].patient_id = resp.caller
          /\ metrics[j].patient_id # resp.caller
          /\ metrics[j].metric_name = metrics[i].metric_name
          /\ metrics[j].value # metrics[i].value

----------------------------------------------------------------------------
\* The positions of an upload, each with the one that follows it; an upload
\* ends (returns or raises) after the write, the encryption or the row.
PipelineOrder ==
    {<<"idle", "reading">>, <<"reading", "saved">>, <<"saved", "validated">>,
     <<"validated", "extracted">>, <<"extracted", "encrypted">>,
     <<"encrypted", "persisted">>,
     <<"saved", "idle">>, <<"encrypted", "idle">>, <<"persisted", "idle">>}

\* C24: an upload goes through validation, metadata extraction, encryption,
\* the HealthRecord row and the audit entry in this order: a ciphertext is
\* written only for a file that passed validation and before any row or
\* entry of that upload, a row only after the ciphertext, and an audit
\* entry only for a row that is already there.
C24_PipelineOrder ==
    [][/\ \A q \in Slots :
             req'[q].pc # req[q].pc
                 => <<req[q].pc, req'[q].pc>> \in PipelineOrder
       /\ (\E p \in Paths : disk'[p].form = "cipher" /\ disk'[p] # disk[p]) =>
             /\ loop # 0
             /\ req[loop].pc = "extracted"
             /\ ~Inadmissible(req[loop].name,
                              disk[PlainPath(req[loop])].size)
             /\ req[loop].rid = 0
             /\ UNCHANGED <<records, logs>>
       /\ records' # records =>
             /\ loop # 0
             /\ req[loop].pc = "encrypted"
             /\ ~Inadmissible(req[loop].name, req[loop].meta)
             /\ Last(records').file_path = EncPath(req[loop])
             /\ disk[EncPath(req[loop])].form = "cipher"
             /\ UNCHANGED logs
       /\ logs' # logs =>
             /\ loop # 0
             /\ req[loop].pc = "persisted"
             /\ Last(logs').record_id \in RecordIds
             /\ records[Last(logs').record_id].file_path = EncPath(req[loop])
             /\ UNCHANGED records]_vars

\* An upload has gone through all five steps while another is waiting for
\* its bytes.
C24_Witness ==
    /\ resp.op = "upload"
    /\ resp.status = 200
    /\ \E l \in LogIds : logs[l].action = "upload" /\ logs[l].record_id = resp.arg
    /\ \E q \in Slots : req[q].pc = "reading"

\* C25: no two uploads in flight write the same path and no two
\* HealthRecord rows share a file_path.
C25_UniquePaths ==
    /\ \A q, s \in Slots :
          (q # s /\ req[q].pc # "idle" /\ req[s].pc # "idle")
              => /\ PlainPath(req[q]) # PlainPath(req[s])
                 /\ EncPath(req[q]) # EncPath(req[s])
    /\ \A r, t \in RecordIds :
          r # t => records[r].file_path # records[t].file_path

\* C26: when an upload has succeeded nothing is at the path of its
\* plaintext and a ciphertext is at that path with ".encrypted" appended,
\* in the uploader's directory; and a plaintext that is removed otherwise
\* than by a rejection has its ciphertext on disk.
C26_OnlyCiphertextRemains ==
    /\ []((resp.op = "upload" /\ resp.status = 200) =>
             /\ disk[<<resp.caller, resp.name>>] = NoFile
             /\ disk[<<resp.caller, EncryptedName(resp.name)>>].form = "cipher")
    /\ [][\A p \in Paths :
             (disk[p].form = "plain" /\ disk'[p] = NoFile
                 /\ resp'.status # 400) =>
                LET e == <<p[1], EncryptedName(p[2])>>
                IN /\ e \in Paths
                   /\ disk'[e].form = "cipher"
                   /\ disk'[e].by = disk[p].by]_vars

\* The second upload of a name has succeeded: one ciphertext, no plaintext.
C26_Witness ==
    /\ resp.op = "upload"
    /\ resp.status = 200
    /\ resp.arg = 2
    /\ records[1].file_name = resp.name
    /\ disk[<<resp.caller, resp.name>>] = NoFile
    /\ disk[<<resp.caller, EncryptedName(resp.name)>>].form = "cipher"

\* C27: when an upload has been rejected with 400, the encrypted file of
\* every HealthRecord row is still on disk, as a ciphertext.
C27_RejectionKeepsFiles ==
    (resp.op = "upload" /\ resp.status = 400) =>
        \A r \in RecordIds : disk[records[r].file_path].form = "cipher"

----------------------------------------------------------------------------
\* C28: a call of update_appointment_status adds and removes no
\* appointment, leaves every other appointment as it is and leaves the
\* patient_id, doctor_id, appointment_date, duration_minutes and reason of
\* the addressed one as they are, whatever keys the body carries.
C28_UpdateFrame ==
    [][resp'.op = "update_appointment" =>
          /\ Len(appts') = Len(appts)
          /\ \A a \in AppointmentIds :
                /\ a # resp'.arg => appts'[a] = appts[a]
                /\ appts'[a].patient_id = appts[a].patient_id
                /\ appts'[a].doctor_id = appts[a].doctor_id
                /\ appts'[a].appointment_date = appts[a].appointment_date
                /\ appts'[a].duration_minutes = appts[a].duration_minutes
                /\ appts'[a].reason = appts[a].reason]_vars

\* An update with a key other than status and notes has been accepted
\* while a second appointment exists.
C28_Witness ==
    /\ resp.op = "update_appointment"
    /\ resp.status = 200
    /\ resp.arg2 # <<>>
    /\ Len(appts) = 2
    /\ appts[resp.arg].status = CONFIRMED
    /\ appts[resp.arg].updated_at > 0

----------------------------------------------------------------------------
\* C29: a successful call of get_patient_records returns no record twice
\* and appends one view entry for each record returned and no other
\* entry, however many active grants the doctor holds on a record.
C29_OncePerRecord ==
    [][(resp'.op = "patient_records" /\ resp'.status = 200) =>
          /\ \A r \in RecordIds :
                Cardinality({i \in 1..Len(resp'.body) : resp'.body[i] = r}) <= 1
          /\ Len(logs') = Len(logs) + Cardinality(Range(resp'.body))
          /\ \A l \in LogIds : logs'[l] = logs[l]
          /\ \A r \in Range(resp'.body) :
                Cardinality({l \in (Len(logs) + 1)..Len(logs') :
                                /\ logs'[l].record_id = r
                                /\ logs'[l].action = "view"
                                /\ logs'[l].user_id = resp'.caller}) = 1]_vars

\* A doctor with two active grants on one record has been given that
\* record.
C29_Witness ==
    /\ resp.op = "patient_records"
    /\ resp.status = 200
    /\ \E g, h \in GrantIds :
          /\ g # h
          /\ grants[g].record_id = grants[h].record_id
          /\ grants[g].doctor_id = resp.caller
          /\ grants[h].doctor_id = resp.caller
          /\ grants[g].is_active
          /\ grants[h].is_active
          /\ grants[g].record_id \in Range(resp.body)

=============================================================================
